---- MODULE Spec2Model ----
(***************************************************************************)
(* Conway bio updater: the lifegame package's bio codec                    *)
(* (lifegame/bio.py) and the renderer it encodes with.  Texts are          *)
(* sequences of one-character strings; grids are sequences of rows of 0/1. *)
(***************************************************************************)
EXTENDS Integers, Sequences, FiniteSets, TLC

\* ------------------------------------------------------------------ bounds
MaxDim == 3        \* rows and cols handed to the decoder range over 1..MaxDim
MaxBioLen == 4     \* free-form bios: every text of at most this many characters
MaxLines == 3      \* line-structured bios: at most this many lines ...
MaxWidth == 4      \* ... each of at most this many equal characters
MaxGridRows == 3   \* encoded grids have 1..MaxGridRows rows ...
MaxGridCols == 2   \* ... and 1..MaxGridCols columns
MaxLength == 7     \* max_length ranges over 0..MaxLength
MaxCells == 8      \* grids handed to step have at most this many cells
MaxQueryCells == 6 \* grids handed to a cell query have at most this many cells
MaxGenerations == 3 \* a run of generations applies step at most this often
MaxScriptCells == 3 \* the script is run with rows * columns of at most this
MaxFileCells == 3  \* a grid loaded from a file has at most this many cells
MaxScriptBioLen == 2 \* the bio found by the first run has at most this many characters
MaxScriptLength == 3 \* --max-length ranges over 0..MaxScriptLength
MaxIterations == 1 \* --preview ITERATIONS ranges over 0..MaxIterations
MaxPlanDim == 5    \* the planner is asked for 1..MaxPlanDim rows and columns
MaxPlanLength == 6 \* ... with a budget of 0..MaxPlanLength characters
MaxRenderCells == 6 \* grids handed to a renderer have at most this many cells
MaxTextLen == 5    \* texts handed to load_grid_from_string have at most this many characters

\* ------------------------------------------------------- glyphs (constants)
\* Each glyph is written as an ASCII stand-in:
\*   "#" for U+25A0 (black square)      "." for U+25A1 (white square)
\*   "@" for U+2588 (full block)        "^" for U+2580 (upper half block)
\*   "_" for U+2584 (lower half block)  "x" for any character of no meaning
FULL_CHAR == "#"
EMPTY_CHAR == "."
TALL_BLOCK_CHAR == "@"
UPPER_HALF_CHAR == "^"
LOWER_HALF_CHAR == "_"
ALIVE_CHARS == {FULL_CHAR, UPPER_HALF_CHAR, LOWER_HALF_CHAR}
NEWLINE_CHAR == "\n"
SPACE_CHAR == " "
OTHER_CHAR == "x"
ONE_CHAR == "1"
ZERO_CHAR == "0"

\* characters that Python's str.strip() removes, among those modelled
WHITESPACE == {SPACE_CHAR, NEWLINE_CHAR}

\* ----------------------------------------------------- Python str helpers
Min(a, b) == IF a <= b THEN a ELSE b
Max(a, b) == IF a >= b THEN a ELSE b

\* c * n  (empty for n <= 0)
str_repeat(c, n) == [i \in 1..n |-> c]

\* s[a:b] with 0 <= a, 0 <= b
str_slice(s, a, b) == SubSeq(s, a + 1, Min(b, Len(s)))

\* s.split(sep): always at least one (possibly empty) line
RECURSIVE str_split(_, _)
str_split(s, sep) ==
    IF \A i \in 1..Len(s) : s[i] # sep
    THEN <<s>>
    ELSE LET k == CHOOSE i \in 1..Len(s) :
                      s[i] = sep /\ \A j \in 1..(i - 1) : s[j] # sep
         IN <<SubSeq(s, 1, k - 1)>> \o str_split(SubSeq(s, k + 1, Len(s)), sep)

\* sep.join(lines)
RECURSIVE str_join(_, _)
str_join(lines, sep) ==
    IF Len(lines) = 0 THEN <<>>
    ELSE IF Len(lines) = 1 THEN lines[1]
    ELSE lines[1] \o sep \o str_join(Tail(lines), sep)

\* s.strip()
RECURSIVE str_strip(_)
str_strip(s) ==
    IF Len(s) = 0 THEN s
    ELSE IF s[1] \in WHITESPACE THEN str_strip(Tail(s))
    ELSE IF s[Len(s)] \in WHITESPACE THEN str_strip(SubSeq(s, 1, Len(s) - 1))
    ELSE s

\* s.replace(old, new) for one-character old and new
str_replace(s, old, new) == [i \in 1..Len(s) |-> IF s[i] = old THEN new ELSE s[i]]

\* s.replace(old, "") for a one-character old
str_remove(s, old) == SelectSeq(s, LAMBDA ch : ch # old)

\* ------------------------------------------------ lifegame.bio: the decoder
\* lines 48-71: a non-empty bio without separator is cut into cols-wide rows
inflate_flat(current_bio, rows, cols) ==
    LET complete_rows == Len(current_bio) \div cols
        remainder == Len(current_bio) % cols
        full_lines == [i \in 1..complete_rows |->
                          str_slice(current_bio, (i - 1) * cols, i * cols)]
        with_partial ==
            IF remainder > 0
            THEN Append(full_lines,
                        str_slice(current_bio, complete_rows * cols, Len(current_bio))
                            \o str_repeat(EMPTY_CHAR, cols - remainder))
            ELSE full_lines
        board_lines ==
            with_partial \o [i \in 1..Max(rows - Len(with_partial), 0) |->
                                str_repeat(EMPTY_CHAR, cols)]
    IN str_join(board_lines, <<NEWLINE_CHAR>>)

\* lines 86-92: pad or truncate one line to cols characters
fix_width(line, cols) ==
    IF Len(line) = cols THEN line
    ELSE IF Len(line) < cols THEN line \o str_repeat(EMPTY_CHAR, cols - Len(line))
    ELSE str_slice(line, 0, cols)

\* lines 74-92: the candidate rows and the validity flag
candidate_rows(text, rows, cols) ==
    LET lines == str_split(text, NEWLINE_CHAR)
        board_lines == str_slice(lines, 0, rows)
    IN IF Len(board_lines) < rows
       THEN [valid |-> FALSE,
             board_lines |-> board_lines \o
                 [i \in 1..(rows - Len(board_lines)) |-> str_repeat(EMPTY_CHAR, cols)]]
       ELSE [valid |-> \A i \in 1..Len(board_lines) : Len(board_lines[i]) = cols,
             board_lines |-> [i \in 1..Len(board_lines) |-> fix_width(board_lines[i], cols)]]

\* line 95: "completely invalid" test
is_blank_board(valid, board_lines) ==
    ~valid /\ Len(str_strip(str_join(board_lines, <<>>))) = 0

\* seed_guard with the test on rows forgotten
seed_guard_cols_only(rows, cols) == cols >= 3

\* line 98: the glider is only laid down when the canvas can hold it
seed_guard(rows, cols) == cols >= 3 /\ rows >= 3

\* list item assignment board_lines[i] = v (0-based); out of range raises
set_item(board, i, v) ==
    IF board.raised # "none" THEN board
    ELSE IF i + 1 \in 1..Len(board.lines)
    THEN [board EXCEPT !.lines = [board.lines EXCEPT ![i + 1] = v]]
    ELSE [board EXCEPT !.raised = "IndexError"]

\* lines 96-105: the default glider board
default_glider(rows, cols) ==
    LET canvas == [raised |-> "none",
                   lines |-> [i \in 1..rows |-> str_repeat(EMPTY_CHAR, cols)]]
        tail == str_repeat(EMPTY_CHAR, cols - 3)
    IN IF seed_guard(rows, cols)
       THEN set_item(
              set_item(
                set_item(canvas, 0, <<EMPTY_CHAR, FULL_CHAR, EMPTY_CHAR>> \o tail),
                1, <<EMPTY_CHAR, EMPTY_CHAR, FULL_CHAR>> \o tail),
              2, <<FULL_CHAR, FULL_CHAR, FULL_CHAR>> \o tail)
       ELSE canvas

\* lines 109-116: lenient classification; the column index is guarded by rows
to_cells(line, rows) ==
    [i \in 1..Min(Len(line), rows) |-> IF line[i] \in ALIVE_CHARS THEN 1 ELSE 0]

\* line 49: a flat bio has no separator and is not empty
is_flat(current_bio) ==
    /\ \A i \in 1..Len(current_bio) : current_bio[i] # NEWLINE_CHAR
    /\ Len(current_bio) > 0

\* lines 49-71: the text that is split into lines
decode_text(current_bio, rows, cols) ==
    IF is_flat(current_bio) THEN inflate_flat(current_bio, rows, cols) ELSE current_bio

\* lifegame.bio.parse_bio_to_grid
parse_bio_to_grid(current_bio, rows, cols) ==
    LET cand == candidate_rows(decode_text(current_bio, rows, cols), rows, cols)
        board == IF is_blank_board(cand.valid, cand.board_lines)
                 THEN default_glider(rows, cols)
                 ELSE [raised |-> "none", lines |-> cand.board_lines]
    IN IF board.raised # "none"
       THEN [grid |-> <<>>, is_valid |-> cand.valid, raised |-> board.raised]
       ELSE [grid |-> [r \in 1..Len(board.lines) |-> to_cells(board.lines[r], rows)],
             is_valid |-> cand.valid,
             raised |-> "none"]

\* --------------------------------- lifegame.game: load_grid_from_string
\* char in ["1", full block]
STRICT_ALIVE == {ONE_CHAR, TALL_BLOCK_CHAR}
\* char in ["0", " "]
STRICT_DEAD == {ZERO_CHAR, SPACE_CHAR}

\* grid_str.strip() left out
skip_strip(s) == s

\* grid_str.strip()
load_strip(s) == str_strip(s)

\* what the loop body raises for one line: the width is tested before the characters
line_error(line, expected_width) ==
    IF Len(line) # expected_width THEN "InconsistentWidth"
    ELSE IF \E i \in 1..Len(line) : line[i] \notin STRICT_ALIVE \cup STRICT_DEAD
    THEN "InvalidCharacter"
    ELSE "none"

\* the row appended for a line that raised nothing
strict_row(line) == [c \in 1..Len(line) |-> IF line[c] \in STRICT_ALIVE THEN 1 ELSE 0]

\* load_grid_from_string: line is the 1-based line the error message names
load_grid_from_string(grid_str) ==
    IF Len(grid_str) = 0
    THEN [raised |-> "EmptyInput", line |-> 0, grid |-> <<>>]
    ELSE LET lines == str_split(load_strip(grid_str), NEWLINE_CHAR)
             expected_width == Len(lines[1])
             bad == {i \in 1..Len(lines) : line_error(lines[i], expected_width) # "none"}
         IN IF bad = {}
            THEN [raised |-> "none", line |-> 0,
                  grid |-> [r \in 1..Len(lines) |-> strict_row(lines[r])]]
            ELSE LET first == CHOOSE i \in bad : \A j \in bad : i <= j
                 IN [raised |-> line_error(lines[first], expected_width),
                     line |-> first, grid |-> <<>>]

\* ----------------------------------------------- lifegame.game: renderers
\* "not grid or not grid[0]"
is_empty_grid(g) == Len(g) = 0 \/ Len(g[1]) = 0

\* render_full with the dead cells left out of each line
render_full_alive_only(g) ==
    IF is_empty_grid(g)
    THEN [raised |-> "ValueError", text |-> <<>>]
    ELSE [raised |-> "none",
          text |-> str_join([r \in 1..Len(g) |->
                        SelectSeq([c \in 1..Len(g[r]) |->
                            IF g[r][c] = 1 THEN TALL_BLOCK_CHAR ELSE SPACE_CHAR],
                            LAMBDA ch : ch = TALL_BLOCK_CHAR)],
                        <<NEWLINE_CHAR>>)]

\* render_full: one line per row, the full block for alive and space for dead
render_full(g) ==
    IF is_empty_grid(g)
    THEN [raised |-> "ValueError", text |-> <<>>]
    ELSE [raised |-> "none",
          text |-> str_join([r \in 1..Len(g) |->
                        [c \in 1..Len(g[r]) |->
                            IF g[r][c] = 1 THEN TALL_BLOCK_CHAR ELSE SPACE_CHAR]],
                        <<NEWLINE_CHAR>>)]

\* the two half blocks taken for each other
half_glyph_swapped(top, bottom) ==
    IF top = 1 /\ bottom = 1 THEN TALL_BLOCK_CHAR
    ELSE IF top = 1 THEN LOWER_HALF_CHAR
    ELSE IF bottom = 1 THEN UPPER_HALF_CHAR
    ELSE SPACE_CHAR

\* the glyph for a (top, bottom) pair of cells
half_glyph(top, bottom) ==
    IF top = 1 /\ bottom = 1 THEN TALL_BLOCK_CHAR
    ELSE IF top = 1 THEN UPPER_HALF_CHAR
    ELSE IF bottom = 1 THEN LOWER_HALF_CHAR
    ELSE SPACE_CHAR

\* render_half: one line per pair of rows; an unpaired last row sits on dead cells
render_half(g) ==
    IF is_empty_grid(g)
    THEN [raised |-> "ValueError", text |-> <<>>]
    ELSE [raised |-> "none",
          text |-> str_join([k \in 1..((Len(g) + 1) \div 2) |->
                        [c \in 1..Len(g[2 * k - 1]) |->
                            half_glyph(g[2 * k - 1][c],
                                       IF 2 * k <= Len(g) THEN g[2 * k][c] ELSE 0)]],
                        <<NEWLINE_CHAR>>)]

\* -------------------------------------------------- lifegame.game: engine
\* seq[i] for a Python list: negative i counts from the end, out of range raises
py_index(seq, i) ==
    IF i >= 0 /\ i < Len(seq) THEN [raised |-> "none", value |-> seq[i + 1]]
    ELSE IF i < 0 /\ -i <= Len(seq) THEN [raised |-> "none", value |-> seq[Len(seq) + i + 1]]
    ELSE [raised |-> "IndexError", value |-> 0]

\* the loop's offsets with the cell itself in place of the last neighbour
neighbor_offsets_with_self ==
    << <<-1, -1>>, <<-1, 0>>, <<-1, 1>>,
       <<0, -1>>,             <<0, 1>>,
       <<1, -1>>,  <<1, 0>>,  <<0, 0>> >>

\* lines 109-113: the (dy, dx) pairs in loop order, the cell itself skipped
neighbor_offsets ==
    << <<-1, -1>>, <<-1, 0>>, <<-1, 1>>,
       <<0, -1>>,             <<0, 1>>,
       <<1, -1>>,  <<1, 0>>,  <<1, 1>> >>

\* wrap with the edges clamped instead of joined
wrap_clamped(v, d, size) == Max(0, Min(v + d, size - 1))

\* lines 116-117: neighbour coordinate with wraparound
wrap(v, d, size) == (v + d) % size

\* lines 106-120: the counting loop; the first lookup that fails ends it
count_neighbors(x, y, g) ==
    LET looked == [k \in 1..Len(neighbor_offsets) |->
                     py_index(g[wrap(y, neighbor_offsets[k][1], Len(g)) + 1],
                              wrap(x, neighbor_offsets[k][2], Len(g[1])))]
        failed == {k \in 1..Len(neighbor_offsets) : looked[k].raised # "none"}
    IN IF failed # {}
       THEN [raised |-> looked[CHOOSE k \in failed : \A o \in failed : k <= o].raised,
             count |-> 0]
       ELSE [raised |-> "none",
             count |-> looked[1].value + looked[2].value + looked[3].value
                       + looked[4].value + looked[5].value + looked[6].value
                       + looked[7].value + looked[8].value]

\* get_neighbors with the bounds test on the coordinates left out
get_neighbors_unchecked(x, y, g) ==
    IF is_empty_grid(g) THEN [raised |-> "EmptyGrid", count |-> 0]
    ELSE count_neighbors(x, y, g)

\* lifegame.game.get_neighbors
get_neighbors(x, y, g) ==
    IF is_empty_grid(g) THEN [raised |-> "EmptyGrid", count |-> 0]
    ELSE IF ~(0 <= x /\ x < Len(g[1])) \/ ~(0 <= y /\ y < Len(g))
    THEN [raised |-> "OutOfBounds", count |-> 0]
    ELSE count_neighbors(x, y, g)

\* line 142
valid_rule_sets == {"standard", "daynight", "highlife"}

\* apply_rule with HighLife's birth on 6 neighbours left out
apply_rule_no_b6(rule_set, current_state, neighbor_count) ==
    IF rule_set = "standard"
    THEN IF current_state = 1
         THEN (IF neighbor_count \in {2, 3} THEN 1 ELSE 0)
         ELSE (IF neighbor_count = 3 THEN 1 ELSE 0)
    ELSE IF rule_set = "daynight"
    THEN IF current_state = 1
         THEN (IF neighbor_count \in {3, 4, 6, 7, 8} THEN 1 ELSE 0)
         ELSE (IF neighbor_count \in {3, 6, 7, 8} THEN 1 ELSE 0)
    ELSE IF rule_set = "highlife"
    THEN IF current_state = 1
         THEN (IF neighbor_count \in {2, 3} THEN 1 ELSE 0)
         ELSE (IF neighbor_count = 3 THEN 1 ELSE 0)
    ELSE current_state

\* lines 155-186: the rule branches
apply_rule(rule_set, current_state, neighbor_count) ==
    IF rule_set = "standard"
    THEN IF current_state = 1
         THEN (IF neighbor_count \in {2, 3} THEN 1 ELSE 0)
         ELSE (IF neighbor_count = 3 THEN 1 ELSE 0)
    ELSE IF rule_set = "daynight"
    THEN IF current_state = 1
         THEN (IF neighbor_count \in {3, 4, 6, 7, 8} THEN 1 ELSE 0)
         ELSE (IF neighbor_count \in {3, 6, 7, 8} THEN 1 ELSE 0)
    ELSE IF rule_set = "highlife"
    THEN IF current_state = 1
         THEN (IF neighbor_count \in {2, 3} THEN 1 ELSE 0)
         ELSE (IF neighbor_count \in {3, 6} THEN 1 ELSE 0)
    ELSE current_state

\* lifegame.game.next_cell_state
next_cell_state(x, y, g, rule_set) ==
    IF rule_set \notin valid_rule_sets THEN [raised |-> "InvalidRuleSet", state |-> 0]
    ELSE LET row == py_index(g, y)
         IN IF row.raised # "none" THEN [raised |-> row.raised, state |-> 0]
            ELSE LET current_state == py_index(row.value, x)
                 IN IF current_state.raised # "none"
                    THEN [raised |-> current_state.raised, state |-> 0]
                    ELSE LET neighbor_count == get_neighbors(x, y, g)
                         IN IF neighbor_count.raised # "none"
                            THEN [raised |-> neighbor_count.raised, state |-> 0]
                            ELSE [raised |-> "none",
                                  state |-> apply_rule(rule_set, current_state.value,
                                                       neighbor_count.count)]

\* lines 208-209: the dimensions step iterates over
step_height(g) == Len(g)
\* step_width taking the number of rows for the number of columns
step_width_as_height(g) == Len(g)
step_width(g) == Len(g[1])

\* lifegame.game.step
step(g, rule_set) ==
    IF is_empty_grid(g) THEN [raised |-> "EmptyGrid", grid |-> <<>>]
    ELSE LET cells == [y \in 1..step_height(g) |-> [x \in 1..step_width(g) |->
                          next_cell_state(x - 1, y - 1, g, rule_set)]]
             failed == {yx \in (1..step_height(g)) \X (1..step_width(g)) :
                           cells[yx[1]][yx[2]].raised # "none"}
         IN IF failed # {}
            THEN LET first == CHOOSE yx \in failed : \A o \in failed :
                                  yx[1] < o[1] \/ (yx[1] = o[1] /\ yx[2] <= o[2])
                 IN [raised |-> cells[first[1]][first[2]].raised, grid |-> <<>>]
            ELSE [raised |-> "none",
                  grid |-> [y \in 1..step_height(g) |-> [x \in 1..step_width(g) |->
                               cells[y][x].state]]]

\* ------------------------------------------------ lifegame.bio: the encoder
\* lines 143-151: internal glyphs to bio glyphs
to_bio_glyphs(rendered_grid, display_mode) ==
    IF display_mode = "full"
    THEN str_replace(str_replace(rendered_grid, TALL_BLOCK_CHAR, FULL_CHAR),
                     SPACE_CHAR, EMPTY_CHAR)
    ELSE str_replace(rendered_grid, SPACE_CHAR, EMPTY_CHAR)

\* lines 153-173: the text for GitHub; flattening and truncation are commented out
github_version(formatted_grid, max_length) == formatted_grid

\* lifegame.bio.format_grid_for_bio
format_grid_for_bio(g, display_mode, max_length) ==
    LET rendered == IF display_mode = "full" THEN render_full(g) ELSE render_half(g)
        formatted_grid == to_bio_glyphs(rendered.text, display_mode)
    IN IF rendered.raised # "none"
       THEN [github_bio |-> <<>>, display_bio |-> <<>>, raised |-> rendered.raised]
       ELSE [github_bio |-> github_version(formatted_grid, max_length),
             display_bio |-> formatted_grid,
             raised |-> "none"]

\* ------------------------------------- conway-bio.py: the script's own copies
\* lines 303-305: every character of a line is classified (no guard on the index)
script_to_cells(line) ==
    [i \in 1..Len(line) |-> IF line[i] \in ALIVE_CHARS THEN 1 ELSE 0]

\* lines 289-296: the script's default glider is drawn with the upper half block
script_default_glider(rows, cols) ==
    LET canvas == [raised |-> "none",
                   lines |-> [i \in 1..rows |-> str_repeat(EMPTY_CHAR, cols)]]
        tail == str_repeat(EMPTY_CHAR, cols - 3)
    IN IF seed_guard(rows, cols)
       THEN set_item(
              set_item(
                set_item(canvas, 0, <<EMPTY_CHAR, UPPER_HALF_CHAR, EMPTY_CHAR>> \o tail),
                1, <<EMPTY_CHAR, EMPTY_CHAR, UPPER_HALF_CHAR>> \o tail),
              2, <<UPPER_HALF_CHAR, UPPER_HALF_CHAR, UPPER_HALF_CHAR>> \o tail)
       ELSE canvas

\* conway-bio.py parse_bio_to_grid (lines 247-285 repeat lifegame.bio 48-92)
script_parse_bio_to_grid(current_bio, rows, cols) ==
    LET cand == candidate_rows(decode_text(current_bio, rows, cols), rows, cols)
        board == IF is_blank_board(cand.valid, cand.board_lines)
                 THEN script_default_glider(rows, cols)
                 ELSE [raised |-> "none", lines |-> cand.board_lines]
    IN IF board.raised # "none"
       THEN [grid |-> <<>>, is_valid |-> cand.valid, raised |-> board.raised]
       ELSE [grid |-> [r \in 1..Len(board.lines) |-> script_to_cells(board.lines[r])],
             is_valid |-> cand.valid,
             raised |-> "none"]

\* lines 339-357: the text sent to GitHub is flat and cut to max_length
script_github_version(formatted_grid, max_length) ==
    LET flat_bio == str_remove(formatted_grid, NEWLINE_CHAR)
        total_chars == Len(flat_bio)
    IN IF total_chars > max_length
       THEN str_slice(flat_bio, 0, max_length)
       ELSE flat_bio

\* conway-bio.py format_grid_for_bio
script_format_grid_for_bio(g, display_mode, max_length) ==
    LET rendered == IF display_mode = "full" THEN render_full(g) ELSE render_half(g)
        formatted_grid == to_bio_glyphs(rendered.text, display_mode)
    IN IF rendered.raised # "none"
       THEN [github_bio |-> <<>>, display_bio |-> <<>>, raised |-> rendered.raised]
       ELSE [github_bio |-> script_github_version(formatted_grid, max_length),
             display_bio |-> formatted_grid,
             raised |-> "none"]

\* lines 479-492: a grid loaded from a file is cut or padded to rows x columns
resize_grid(g, rows, columns) ==
    IF Len(g) # rows \/ Len(g[1]) # columns
    THEN [y \in 1..rows |-> [x \in 1..columns |->
            IF y <= Min(Len(g), rows) /\ x <= Min(Len(g[1]), columns)
            THEN g[y][x] ELSE 0]]
    ELSE g

\* lines 520-529: the grid used when no source gave one
fallback_grid(rows, columns) ==
    [y \in 1..rows |-> [x \in 1..columns |->
        IF columns >= 3 /\ rows >= 3
           /\ <<y, x>> \in {<<1, 2>>, <<2, 3>>, <<3, 1>>, <<3, 2>>, <<3, 3>>}
        THEN 1 ELSE 0]]

\* normal_evolve stepping twice
normal_evolve_twice(g, rule_set) ==
    LET once == step(g, rule_set)
    IN IF once.raised # "none" THEN once ELSE step(once.grid, rule_set)

\* line 558: a normal run evolves the grid by one call of step
normal_evolve(g, rule_set) == step(g, rule_set)

\* Python truth value of an optional int, None being <<>> and n being <<n>>
py_truthy(opt) == opt # <<>> /\ opt[1] # 0

\* line 375: range(iterations)
range_len(n) == Max(n, 0)

\* --------------------------------------------- calculate_safe_dimensions
\* int(max_length / columns) rounded up instead of cut
int_div_rounded_up(a, b) == (a + b - 1) \div b

\* int(max_length / columns)
int_div(a, b) == a \div b

\* effective_max without the doubling
effective_max_undoubled(max_length) == max_length

\* effective_max = max_length * 2
half_effective_max(max_length) == max_length * 2

\* lines 176-222 of lifegame.bio (conway-bio.py 166-210 is the same text)
calculate_safe_dimensions(rows, columns, max_length, display_mode) ==
    LET total_chars == rows * columns
        effective_max == half_effective_max(max_length)
    IN IF total_chars <= max_length
       THEN <<rows, columns>>
       ELSE IF display_mode = "half"
       THEN IF columns <= effective_max
            THEN <<Min(rows, effective_max \div columns), columns>>
            ELSE <<1, effective_max>>
       ELSE IF rows <= 1
       THEN <<1, Min(columns, max_length)>>
       ELSE LET safe_rows == Min(rows, Max(1, int_div(max_length, columns)))
            IN <<safe_rows, Min(columns, max_length \div safe_rows)>>

\* ------------------------------------------------------------- input sets
Dims == 1..MaxDim

BioChars == ALIVE_CHARS \cup {EMPTY_CHAR, SPACE_CHAR, OTHER_CHAR, NEWLINE_CHAR}

\* every text of at most MaxBioLen characters
FreeBios == UNION {[1..n -> BioChars] : n \in 0..MaxBioLen}

\* texts made of at most MaxLines lines, each a run of one glyph
UniformLines == {str_repeat(c, n) : c \in {FULL_CHAR, SPACE_CHAR}, n \in 0..MaxWidth}
LineBios == {str_join(ls, <<NEWLINE_CHAR>>) :
                ls \in UNION {[1..n -> UniformLines] : n \in 1..MaxLines}}

Bios == FreeBios \cup LineBios

\* every rectangular grid of at most MaxGridRows rows and MaxGridCols columns
Grids == UNION {[1..r -> [1..c -> {0, 1}]] : r \in 1..MaxGridRows, c \in 1..MaxGridCols}

\* ------------------------------------------------------------------ state
VARIABLES
    pc,           \* position of the harness
    current_bio,  \* the text handed to the decoder
    rows, cols,   \* the dimensions handed to the decoder
    grid,         \* the decoded grid
    is_valid,     \* the decoder's flag
    raised,       \* "none", or the error a call ended with
    new_grid,     \* the grid handed to the encoder (<<>> when none)
    display_mode, \* "full" or "half"
    max_length,   \* the length budget handed to the encoder
    github_bio,   \* first string returned by the encoder
    display_bio,  \* second string returned by the encoder
    rule_set,     \* the rule-set key handed to the engine
    arg_grid,     \* the grid as it was when step was called
    again,        \* what a second call of step on the same arguments returned
    seed_grid,    \* the grid a run of generations started from
    generation,   \* number of steps applied to seed_grid so far
    cx, cy,       \* the coordinates handed to a cell query
    neighbor_count, \* what get_neighbors returned
    next_state,   \* what next_cell_state returned
    stored_bio,   \* the bio stored on GitHub
    args_preview, \* --preview: <<>> when absent, <<n>> when given
    args_input,   \* --input was given
    args_randomize, \* --randomize-board was given
    run,          \* 1 in the first run of the script, 2 in every later run
    fetches,      \* GET requests made by this run
    updates,      \* PATCH requests made by this run
    sent,         \* the text of the last PATCH request
    written,      \* the last PATCH request succeeded
    source_grid,  \* the grid this run started from
    iteration,    \* preview iterations done
    safe_rows, safe_columns, \* what calculate_safe_dimensions returned
    error_line    \* the line an error of load_grid_from_string names (0 when none)

engine_vars == <<arg_grid, again, seed_grid, generation, cx, cy,
                 neighbor_count, next_state>>
script_vars == <<stored_bio, args_preview, args_input, args_randomize, run, fetches,
                 updates, sent, written, source_grid, iteration>>
planner_vars == <<safe_rows, safe_columns>>
loader_vars == <<error_line>>

vars == <<pc, current_bio, rows, cols, grid, is_valid, raised,
          new_grid, display_mode, max_length, github_bio, display_bio,
          rule_set, engine_vars, script_vars, planner_vars, loader_vars>>

\* the variables of a part of the program that has not run
EngineIdle ==
    /\ arg_grid = <<>>
    /\ again = <<>>
    /\ seed_grid = <<>>
    /\ generation = 0
    /\ cx = 0
    /\ cy = 0
    /\ neighbor_count = 0
    /\ next_state = 0

ScriptIdle ==
    /\ stored_bio = <<>>
    /\ args_preview = <<>>
    /\ args_input = FALSE
    /\ args_randomize = FALSE
    /\ run = 0
    /\ fetches = 0
    /\ updates = 0
    /\ sent = <<>>
    /\ written = FALSE
    /\ source_grid = <<>>
    /\ iteration = 0

PlannerIdle ==
    /\ safe_rows = 0
    /\ safe_columns = 0

LoaderIdle == error_line = 0

CodecIdle ==
    /\ current_bio = <<>>
    /\ is_valid = FALSE
    /\ github_bio = <<>>
    /\ display_bio = <<>>

\* a bio as found: decode it with caller-supplied dimensions
InitFetched ==
    /\ pc = "fetched"
    /\ current_bio \in Bios
    /\ rows \in Dims
    /\ cols \in Dims
    /\ new_grid = <<>>
    /\ display_mode = "full"
    /\ max_length = 0

\* a grid to store: encode it, write it, decode it with its own dimensions
InitGrid ==
    /\ pc = "stepped"
    /\ current_bio = <<>>
    /\ new_grid \in Grids
    /\ rows = Len(new_grid)
    /\ cols = Len(new_grid[1])
    /\ display_mode \in {"full", "half"}
    /\ max_length \in 0..MaxLength

Init ==
    /\ InitFetched \/ InitGrid
    /\ grid = <<>>
    /\ is_valid = FALSE
    /\ raised = "none"
    /\ github_bio = <<>>
    /\ display_bio = <<>>
    /\ rule_set = "standard"
    /\ EngineIdle
    /\ ScriptIdle
    /\ PlannerIdle
    /\ LoaderIdle

\* github_bio, display_bio = format_grid_for_bio(new_grid, display_mode, max_length)
Format ==
    /\ pc = "stepped"
    /\ \E res \in {format_grid_for_bio(new_grid, display_mode, max_length)} :
          /\ github_bio' = res.github_bio
          /\ display_bio' = res.display_bio
          /\ raised' = res.raised
          /\ pc' = IF res.raised = "none" THEN "formatted" ELSE "failed"
    /\ UNCHANGED <<current_bio, rows, cols, grid, is_valid,
                   new_grid, display_mode, max_length>>
    /\ UNCHANGED <<rule_set, engine_vars, script_vars, planner_vars, loader_vars>>

\* the returned text becomes the stored bio, which the next decode reads
Update ==
    /\ pc = "formatted"
    /\ current_bio' = github_bio
    /\ pc' = "fetched"
    /\ UNCHANGED <<rows, cols, grid, is_valid, raised,
                   new_grid, display_mode, max_length, github_bio, display_bio>>
    /\ UNCHANGED <<rule_set, engine_vars, script_vars, planner_vars, loader_vars>>

\* grid, is_valid = parse_bio_to_grid(current_bio, rows, cols)
Parse ==
    /\ pc = "fetched"
    /\ \E res \in {parse_bio_to_grid(current_bio, rows, cols)} :
          /\ grid' = res.grid
          /\ is_valid' = res.is_valid
          /\ raised' = res.raised
          /\ pc' = IF res.raised = "none" THEN "parsed" ELSE "failed"
    /\ UNCHANGED <<current_bio, rows, cols,
                   new_grid, display_mode, max_length, github_bio, display_bio>>
    /\ UNCHANGED <<rule_set, engine_vars, script_vars, planner_vars, loader_vars>>

Next == Format \/ Update \/ Parse

Spec == Init /\ [][Next]_vars

\* ----------------------------------------------------- state: the engine
\* every rectangular grid of at most n cells
grids_up_to(n) ==
    UNION {[1..d[1] -> [1..d[2] -> {0, 1}]] :
             d \in {e \in (1..n) \X (1..n) : e[1] * e[2] <= n}}

\* the grids with no rows, or with rows of no cells
EmptyGrids == {<<>>, <<<<>>>>}

\* the 3 x 3 boards, the blinker of the tests among them
Boards == [1..3 -> [1..3 -> {0, 1}]]

\* every grid of at most MaxCells cells, the 3 x 3 boards, the empty grids
EngineGrids == grids_up_to(MaxCells) \cup Boards \cup EmptyGrids

\* the three defined keys and one that is not defined
RuleKeys == valid_rule_sets \cup {"bogus"}

cell_count(g) == IF Len(g) = 0 THEN 0 ELSE Len(g) * Len(g[1])

\* coordinates around a grid: every cell and one step outside on each side
XRange(g) == -1..(IF Len(g) = 0 THEN 0 ELSE Len(g[1]))
YRange(g) == -1..Len(g)

InitEngine ==
    /\ pc = "ready"
    /\ grid \in EngineGrids
    /\ rule_set \in RuleKeys
    /\ seed_grid = grid
    /\ generation = 0
    /\ arg_grid = <<>>
    /\ again = <<>>
    /\ cx = 0
    /\ cy = 0
    /\ neighbor_count = 0
    /\ next_state = 0
    /\ new_grid = <<>>
    /\ raised = "none"
    /\ rows = 0
    /\ cols = 0
    /\ display_mode = "full"
    /\ max_length = 0
    /\ CodecIdle
    /\ ScriptIdle
    /\ PlannerIdle
    /\ LoaderIdle

\* new_grid = step(grid, rule_set)
Step ==
    /\ pc = "ready"
    /\ \E res \in {step(grid, rule_set)} :
          /\ new_grid' = res.grid
          /\ raised' = res.raised
    /\ arg_grid' = grid
    /\ pc' = "evolved"
    /\ UNCHANGED <<grid, rule_set, again, seed_grid, generation, cx, cy,
                   neighbor_count, next_state>>
    /\ UNCHANGED <<current_bio, rows, cols, is_valid, display_mode, max_length,
                   github_bio, display_bio, script_vars, planner_vars, loader_vars>>

\* step(grid, rule_set) called a second time on the same arguments
Restep ==
    /\ pc = "evolved"
    /\ again' = step(grid, rule_set)
    /\ pc' = "evolved_again"
    /\ UNCHANGED <<grid, new_grid, raised, rule_set, arg_grid, seed_grid,
                   generation, cx, cy, neighbor_count, next_state>>
    /\ UNCHANGED <<current_bio, rows, cols, is_valid, display_mode, max_length,
                   github_bio, display_bio, script_vars, planner_vars, loader_vars>>

\* Advance that counts the generation but keeps the old grid
AdvanceStale ==
    /\ pc = "evolved"
    /\ raised = "none"
    /\ generation < MaxGenerations
    /\ grid' = grid
    /\ generation' = generation + 1
    /\ pc' = "ready"
    /\ UNCHANGED <<new_grid, raised, rule_set, arg_grid, again, seed_grid,
                   cx, cy, neighbor_count, next_state>>
    /\ UNCHANGED <<current_bio, rows, cols, is_valid, display_mode, max_length,
                   github_bio, display_bio, script_vars, planner_vars, loader_vars>>

\* grid = step(grid): the result becomes the next generation's input
Advance ==
    /\ pc = "evolved"
    /\ raised = "none"
    /\ generation < MaxGenerations
    /\ grid' = new_grid
    /\ generation' = generation + 1
    /\ pc' = "ready"
    /\ UNCHANGED <<new_grid, raised, rule_set, arg_grid, again, seed_grid,
                   cx, cy, neighbor_count, next_state>>
    /\ UNCHANGED <<current_bio, rows, cols, is_valid, display_mode, max_length,
                   github_bio, display_bio, script_vars, planner_vars, loader_vars>>

\* neighbor_count = get_neighbors(x, y, grid)
GetNeighbors ==
    /\ pc = "ready"
    /\ cell_count(grid) <= MaxQueryCells \/ grid \in Boards
    /\ \E x \in XRange(grid), y \in YRange(grid) :
          \E res \in {get_neighbors(x, y, grid)} :
             /\ neighbor_count' = res.count
             /\ raised' = res.raised
             /\ cx' = x
             /\ cy' = y
    /\ pc' = "counted"
    /\ UNCHANGED <<grid, new_grid, rule_set, arg_grid, again, seed_grid,
                   generation, next_state>>
    /\ UNCHANGED <<current_bio, rows, cols, is_valid, display_mode, max_length,
                   github_bio, display_bio, script_vars, planner_vars, loader_vars>>

\* next_state = next_cell_state(x, y, grid, rule_set)
NextCellState ==
    /\ pc = "ready"
    /\ cell_count(grid) <= MaxQueryCells
    /\ \E x \in XRange(grid), y \in YRange(grid) :
          \E res \in {next_cell_state(x, y, grid, rule_set)} :
             /\ next_state' = res.state
             /\ raised' = res.raised
             /\ cx' = x
             /\ cy' = y
    /\ pc' = "judged"
    /\ UNCHANGED <<grid, new_grid, rule_set, arg_grid, again, seed_grid,
                   generation, neighbor_count>>
    /\ UNCHANGED <<current_bio, rows, cols, is_valid, display_mode, max_length,
                   github_bio, display_bio, script_vars, planner_vars, loader_vars>>

\* single calls of the engine's functions
NextEngine == Step \/ Restep \/ GetNeighbors \/ NextCellState

SpecEngine == InitEngine /\ [][NextEngine]_vars

\* ------------------------------------------- state: a run of generations
\* the grid of r rows and c columns with no live cell
dead_grid(r, c) == [y \in 1..r |-> [x \in 1..c |-> 0]]

DeadGrids == {dead_grid(d[1], d[2]) :
                d \in {e \in (1..MaxCells) \X (1..MaxCells) : e[1] * e[2] <= MaxCells}}

RunSeeds == Boards \cup DeadGrids

InitRun ==
    /\ pc = "ready"
    /\ grid \in RunSeeds
    /\ rule_set \in valid_rule_sets
    /\ seed_grid = grid
    /\ generation = 0
    /\ arg_grid = <<>>
    /\ again = <<>>
    /\ cx = 0
    /\ cy = 0
    /\ neighbor_count = 0
    /\ next_state = 0
    /\ new_grid = <<>>
    /\ raised = "none"
    /\ rows = 0
    /\ cols = 0
    /\ display_mode = "full"
    /\ max_length = 0
    /\ CodecIdle
    /\ ScriptIdle
    /\ PlannerIdle
    /\ LoaderIdle

\* generation after generation: step, then feed the result back
NextRun == Step \/ Advance

SpecRun == InitRun /\ [][NextRun]_vars

\* ----------------------------------------------------- state: the script
ScriptDims == {d \in (1..MaxScriptCells) \X (1..MaxScriptCells) :
                 d[1] * d[2] <= MaxScriptCells}

\* the bio the first run finds is made of these; later runs find what was
\* written, which adds the other glyphs of the encoder
ScriptBioChars == {FULL_CHAR, SPACE_CHAR, NEWLINE_CHAR}

ScriptBios == UNION {[1..n -> ScriptBioChars] : n \in 0..MaxScriptBioLen}

\* what load_grid_from_string can return: a rectangular grid, its rows
\* possibly empty (a file of blanks)
FileGrids == grids_up_to(MaxFileCells) \cup {<<<<>>>>}

PreviewArgs == {<<>>} \cup {<<n>> : n \in 0..MaxIterations}

\* lines 470-500: the branch that reads the stored bio is the last of three
reads_bio == ~args_input /\ ~args_randomize /\ ~py_truthy(args_preview)

InitScript ==
    /\ pc = "start"
    /\ run = 1
    /\ \E d \in ScriptDims : rows = d[1] /\ cols = d[2]
    /\ max_length \in 0..MaxScriptLength
    /\ display_mode \in {"full", "half"}
    /\ rule_set \in valid_rule_sets
    /\ args_preview \in PreviewArgs
    /\ args_input \in BOOLEAN
    /\ args_randomize \in BOOLEAN
    /\ stored_bio \in (IF reads_bio THEN ScriptBios ELSE {<<>>})
    /\ grid = <<>>
    /\ new_grid = <<>>
    /\ source_grid = <<>>
    /\ raised = "none"
    /\ fetches = 0
    /\ updates = 0
    /\ sent = <<>>
    /\ written = FALSE
    /\ iteration = 0
    /\ CodecIdle
    /\ EngineIdle
    /\ PlannerIdle
    /\ LoaderIdle

\* what no step of the script touches
script_frame == <<rows, cols, max_length, display_mode, rule_set, args_preview,
                  args_input, args_randomize, arg_grid, again, seed_grid, cx, cy,
                  neighbor_count, next_state, planner_vars, loader_vars>>

\* lines 470-492: --input; a file that cannot be loaded ends the run
LoadFromFile ==
    /\ pc = "start"
    /\ args_input
    /\ \/ /\ pc' = "exit1"
          /\ UNCHANGED <<grid, source_grid>>
       \/ \E g \in FileGrids :
             /\ grid' = resize_grid(g, rows, cols)
             /\ source_grid' = resize_grid(g, rows, cols)
             /\ pc' = "have_grid"
    /\ UNCHANGED <<script_frame, current_bio, is_valid, raised, new_grid,
                   github_bio, display_bio, generation, stored_bio, run, fetches,
                   updates, sent, written, iteration>>

\* lines 495-498: --randomize-board
RandomBoard ==
    /\ pc = "start"
    /\ ~args_input
    /\ args_randomize
    /\ \E g \in [1..rows -> [1..cols -> {0, 1}]] :
          /\ grid' = g
          /\ source_grid' = g
    /\ pc' = "have_grid"
    /\ UNCHANGED <<script_frame, current_bio, is_valid, raised, new_grid,
                   github_bio, display_bio, generation, stored_bio, run, fetches,
                   updates, sent, written, iteration>>

\* lines 501-517: GET the bio and decode it; a failed request ends the run
FetchBio ==
    /\ pc = "start"
    /\ ~args_input
    /\ ~args_randomize
    /\ ~py_truthy(args_preview)
    /\ fetches' = fetches + 1
    /\ \/ /\ pc' = "exit1"
          /\ UNCHANGED <<current_bio, grid, is_valid, raised, source_grid>>
       \/ \E res \in {script_parse_bio_to_grid(stored_bio, rows, cols)} :
             /\ current_bio' = stored_bio
             /\ grid' = res.grid
             /\ source_grid' = res.grid
             /\ is_valid' = res.is_valid
             /\ raised' = res.raised
             /\ pc' = IF res.raised = "none" THEN "have_grid" ELSE "exit1"
    /\ UNCHANGED <<script_frame, new_grid, github_bio, display_bio, generation,
                   stored_bio, run, updates, sent, written, iteration>>

\* lines 520-529: no source gave a grid
DefaultGlider ==
    /\ pc = "start"
    /\ ~args_input
    /\ ~args_randomize
    /\ py_truthy(args_preview)
    /\ grid' = fallback_grid(rows, cols)
    /\ source_grid' = fallback_grid(rows, cols)
    /\ pc' = "have_grid"
    /\ UNCHANGED <<script_frame, current_bio, is_valid, raised, new_grid,
                   github_bio, display_bio, generation, stored_bio, run, fetches,
                   updates, sent, written, iteration>>

\* lines 535-537, 377-381: the preview prints the initial grid
PreviewStart ==
    /\ pc = "have_grid"
    /\ py_truthy(args_preview)
    /\ \E shown \in {IF display_mode = "full" THEN render_full(grid)
                      ELSE render_half(grid)} :
          /\ raised' = shown.raised
          /\ pc' = IF shown.raised = "none" THEN "previewing" ELSE "exit1"
    /\ UNCHANGED <<script_frame, current_bio, grid, is_valid, new_grid,
                   github_bio, display_bio, generation, stored_bio, run, fetches,
                   updates, sent, written, source_grid, iteration>>

\* lines 384-394: one iteration of the preview loop
PreviewIterate ==
    /\ pc = "previewing"
    /\ iteration < range_len(args_preview[1])
    /\ \E res \in {step(grid, rule_set)} :
       \E shown \in {IF display_mode = "full" THEN render_full(res.grid)
                      ELSE render_half(res.grid)} :
       LET failure == IF res.raised # "none" THEN res.raised ELSE shown.raised
       IN /\ raised' = failure
          /\ grid' = IF failure = "none" THEN res.grid ELSE grid
          /\ pc' = IF failure = "none" THEN "previewing" ELSE "exit1"
    /\ iteration' = iteration + 1
    /\ generation' = generation + 1
    /\ UNCHANGED <<script_frame, current_bio, is_valid, new_grid,
                   github_bio, display_bio, stored_bio, run, fetches,
                   updates, sent, written, source_grid>>

\* lines 396, 544-555: the final grid is formatted and printed; the run ends
PreviewFinish ==
    /\ pc = "previewing"
    /\ iteration >= range_len(args_preview[1])
    /\ \E res \in {script_format_grid_for_bio(grid, display_mode, max_length)} :
          /\ github_bio' = res.github_bio
          /\ display_bio' = res.display_bio
          /\ raised' = res.raised
          /\ pc' = IF res.raised = "none" THEN "done" ELSE "exit1"
    /\ UNCHANGED <<script_frame, current_bio, grid, is_valid, new_grid,
                   generation, stored_bio, run, fetches, updates, sent, written,
                   source_grid, iteration>>

\* lines 558-570: a normal run steps the grid and formats the result
Evolve ==
    /\ pc = "have_grid"
    /\ ~py_truthy(args_preview)
    /\ \E res \in {normal_evolve(grid, rule_set)} :
       \E fmt \in {script_format_grid_for_bio(res.grid, display_mode, max_length)} :
       LET failure == IF res.raised # "none" THEN res.raised ELSE fmt.raised
       IN /\ raised' = failure
          /\ new_grid' = IF res.raised = "none" THEN res.grid ELSE new_grid
          /\ github_bio' = IF failure = "none" THEN fmt.github_bio ELSE github_bio
          /\ display_bio' = IF failure = "none" THEN fmt.display_bio ELSE display_bio
          /\ generation' = IF res.raised = "none" THEN generation + 1 ELSE generation
          /\ pc' = IF failure = "none" THEN "encoded" ELSE "exit1"
    /\ UNCHANGED <<script_frame, current_bio, grid, is_valid, stored_bio, run,
                   fetches, updates, sent, written, source_grid, iteration>>

\* lines 573, 401-429: PATCH the bio; a failed request is reported and the run ends
UpdateBio ==
    /\ pc = "encoded"
    /\ updates' = updates + 1
    /\ sent' = github_bio
    /\ \E ok \in BOOLEAN :
          /\ written' = ok
          /\ stored_bio' = IF ok THEN github_bio ELSE stored_bio
    /\ pc' = "done"
    /\ UNCHANGED <<script_frame, current_bio, grid, is_valid, raised, new_grid,
                   github_bio, display_bio, generation, run, fetches,
                   source_grid, iteration>>

\* the script is started again with the same arguments: a new process, whose
\* variables are fresh; what outlives the old one is the stored bio (new_grid,
\* sent and written are kept as the record of what the last run did). Only
\* runs that read the stored bio are repeated, the other sources ignore it
Rerun ==
    /\ pc \in {"done", "exit1"}
    /\ reads_bio
    /\ run' = 2
    /\ pc' = "start"
    /\ fetches' = 0
    /\ updates' = 0
    /\ iteration' = 0
    /\ generation' = 0
    /\ raised' = "none"
    /\ grid' = <<>>
    /\ source_grid' = <<>>
    /\ current_bio' = <<>>
    /\ is_valid' = FALSE
    /\ github_bio' = <<>>
    /\ display_bio' = <<>>
    /\ UNCHANGED <<script_frame, new_grid, stored_bio, sent, written>>

NextScript ==
    \/ LoadFromFile
    \/ RandomBoard
    \/ FetchBio
    \/ DefaultGlider
    \/ PreviewStart
    \/ PreviewIterate
    \/ PreviewFinish
    \/ Evolve
    \/ UpdateBio
    \/ Rerun

SpecScript == InitScript /\ [][NextScript]_vars

\* ---------------------------------------------------- state: the planner
InitPlanner ==
    /\ pc = "plan"
    /\ rows \in 1..MaxPlanDim
    /\ cols \in 1..MaxPlanDim
    /\ max_length \in 0..MaxPlanLength
    /\ display_mode \in {"full", "half"}
    /\ grid = <<>>
    /\ new_grid = <<>>
    /\ raised = "none"
    /\ rule_set = "standard"
    /\ CodecIdle
    /\ EngineIdle
    /\ ScriptIdle
    /\ PlannerIdle
    /\ LoaderIdle

\* safe_rows, safe_columns = calculate_safe_dimensions(rows, cols, max_length, display_mode)
Plan ==
    /\ pc = "plan"
    /\ \E res \in {calculate_safe_dimensions(rows, cols, max_length, display_mode)} :
          /\ safe_rows' = res[1]
          /\ safe_columns' = res[2]
    /\ pc' = "planned"
    /\ UNCHANGED <<current_bio, rows, cols, grid, is_valid, raised, new_grid,
                   display_mode, max_length, github_bio, display_bio, rule_set,
                   engine_vars, script_vars, loader_vars>>

NextPlanner == Plan

SpecPlanner == InitPlanner /\ [][NextPlanner]_vars

\* ------------------------------------------------ state: the strict loader
LoadChars == STRICT_ALIVE \cup STRICT_DEAD \cup {NEWLINE_CHAR, OTHER_CHAR}

LoadTexts == UNION {[1..n -> LoadChars] : n \in 0..MaxTextLen}

InitLoader ==
    /\ pc = "load"
    /\ current_bio \in LoadTexts
    /\ rows = 0
    /\ cols = 0
    /\ grid = <<>>
    /\ new_grid = <<>>
    /\ raised = "none"
    /\ rule_set = "standard"
    /\ display_mode = "full"
    /\ max_length = 0
    /\ is_valid = FALSE
    /\ github_bio = <<>>
    /\ display_bio = <<>>
    /\ EngineIdle
    /\ ScriptIdle
    /\ PlannerIdle
    /\ LoaderIdle

\* grid = load_grid_from_string(current_bio)
LoadGrid ==
    /\ pc = "load"
    /\ \E res \in {load_grid_from_string(current_bio)} :
          /\ grid' = res.grid
          /\ raised' = res.raised
          /\ error_line' = res.line
          /\ pc' = IF res.raised = "none" THEN "loaded" ELSE "failed"
    /\ UNCHANGED <<current_bio, rows, cols, is_valid, new_grid, display_mode,
                   max_length, github_bio, display_bio, rule_set,
                   engine_vars, script_vars, planner_vars>>

NextLoader == LoadGrid

SpecLoader == InitLoader /\ [][NextLoader]_vars

\* --------------------------------------------------- state: the renderers
RenderGrids == grids_up_to(MaxRenderCells) \cup EmptyGrids

InitRender ==
    /\ pc = "render"
    /\ new_grid \in RenderGrids
    /\ display_mode \in {"full", "half"}
    /\ rows = 0
    /\ cols = 0
    /\ grid = <<>>
    /\ raised = "none"
    /\ rule_set = "standard"
    /\ max_length = 0
    /\ CodecIdle
    /\ EngineIdle
    /\ ScriptIdle
    /\ PlannerIdle
    /\ LoaderIdle

\* display_bio = render_full(new_grid) or render_half(new_grid)
Render ==
    /\ pc = "render"
    /\ \E res \in {IF display_mode = "half" THEN render_half(new_grid)
                                            ELSE render_full(new_grid)} :
          /\ display_bio' = res.text
          /\ raised' = res.raised
          /\ pc' = IF res.raised = "none" THEN "rendered" ELSE "failed"
    /\ UNCHANGED <<current_bio, rows, cols, grid, is_valid, new_grid, display_mode,
                   max_length, github_bio, rule_set,
                   engine_vars, script_vars, planner_vars, loader_vars>>

NextRender == Render

SpecRender == InitRender /\ [][NextRender]_vars

\* ------------------------------------------------------ claim vocabulary
classify(ch) == IF ch \in ALIVE_CHARS THEN 1 ELSE 0
classify_line(line) == [c \in 1..Len(line) |-> classify(line[c])]
dead_row(n) == [c \in 1..n |-> 0]
glider_cells == {<<1, 2>>, <<2, 3>>, <<3, 1>>, <<3, 2>>, <<3, 3>>}
glider_grid(nr, nc) ==
    [r \in 1..nr |-> [c \in 1..nc |-> IF <<r, c>> \in glider_cells THEN 1 ELSE 0]]
all_dead_grid(nr, nc) == [r \in 1..nr |-> dead_row(nc)]
is_rectangular(g, nr, nc) ==
    /\ Len(g) = nr
    /\ \A r \in 1..Len(g) : Len(g[r]) = nc /\ \A c \in 1..Len(g[r]) : g[r][c] \in {0, 1}
has_char(s, ch) == \E i \in 1..Len(s) : s[i] = ch
\* the lines of the input as written: cols-wide chunks of a flat text
input_rows(bio, nc) ==
    IF is_flat(bio)
    THEN [k \in 1..((Len(bio) + nc - 1) \div nc) |-> str_slice(bio, (k - 1) * nc, k * nc)]
    ELSE str_split(bio, NEWLINE_CHAR)
all_width(lines, nc) == \A i \in 1..Len(lines) : Len(lines[i]) = nc
\* number of text rows a grid of nr rows renders to
rendered_rows(nr, mode) == IF mode = "full" THEN nr ELSE (nr + 1) \div 2
\* the candidate rows the decoder built for the current input
current_candidates == candidate_rows(decode_text(current_bio, rows, cols), rows, cols)

\* ----------------------------------------------------------------- claims

\* C1: full-mode round trip: when rows*cols <= max_length, decoding the text
\* returned by format_grid_for_bio(g, "full", max_length) with g's own rows
\* and cols gives back g cell for cell.
C1_FullRoundTrip ==
    (pc = "parsed" /\ Len(new_grid) > 0 /\ display_mode = "full"
        /\ rows * cols <= max_length)
    => grid = new_grid

\* C2: the grid returned by parse_bio_to_grid always has exactly rows rows of
\* exactly cols cells, each 0 or 1, whatever is_valid says.
C2_GridIsRowsByCols ==
    pc = "parsed" => is_rectangular(grid, rows, cols)

\* C3: parse_bio_to_grid never raises: from every bio and every rows, cols >= 1
\* the call ends with a grid and a boolean flag.
C3_ParseNeverRaises ==
    [][pc = "fetched" =>
          /\ pc' = "parsed"
          /\ raised' = "none"
          /\ is_valid' \in BOOLEAN
          /\ Len(grid') >= 1]_vars

\* C3 witness: a blank, invalid bio reached the glider seeding on a canvas too
\* short for the glider, and the call still returned.
C3_Witness ==
    /\ pc = "parsed"
    /\ raised = "none"
    /\ is_blank_board(current_candidates.valid, current_candidates.board_lines)
    /\ rows < 3
    /\ cols >= 3

\* C4: the first string returned by format_grid_for_bio is at most max_length
\* long: the first max_length characters of the concatenated rendering when
\* that is longer, the whole of it otherwise; the display text is not truncated.
C4_BioWithinMaxLength ==
    pc = "formatted" =>
        /\ Len(github_bio) <= max_length
        /\ github_bio = str_slice(str_remove(display_bio, NEWLINE_CHAR), 0, max_length)
        /\ Len(str_remove(display_bio, NEWLINE_CHAR))
               = rendered_rows(Len(new_grid), display_mode) * Len(new_grid[1])

\* C5: the first string returned by format_grid_for_bio has no row separator
\* and, when not truncated, is the display text's lines concatenated in order;
\* the display text keeps one separator between consecutive rendered rows.
C5_FlatIsConcatenation ==
    pc = "formatted" =>
        /\ ~has_char(github_bio, NEWLINE_CHAR)
        /\ Len(str_remove(display_bio, NEWLINE_CHAR)) <= max_length
              => github_bio = str_join(str_split(display_bio, NEWLINE_CHAR), <<>>)
        /\ Len(str_split(display_bio, NEWLINE_CHAR))
               = rendered_rows(Len(new_grid), display_mode)

\* C6: an input marked invalid whose candidate rows hold only dead glyphs or
\* blanks (the empty bio among them) decodes to is_valid = FALSE and the
\* default glider when rows >= 3 and cols >= 3, an all-dead grid otherwise.
C6_BlankInvalidSeedsGlider ==
    (/\ pc = "parsed"
     /\ ~current_candidates.valid
     /\ \A r \in 1..Len(current_candidates.board_lines) :
            \A c \in 1..Len(current_candidates.board_lines[r]) :
                current_candidates.board_lines[r][c] \in {EMPTY_CHAR, SPACE_CHAR})
    => /\ ~is_valid
       /\ grid = IF rows >= 3 /\ cols >= 3
                 THEN glider_grid(rows, cols)
                 ELSE all_dead_grid(rows, cols)

\* C7: is_valid is the sole signal of repair: is_valid = TRUE means the input
\* (its lines, or the cols-wide chunks of a flat text) had at least rows rows,
\* the first rows of them exactly cols wide, and the grid is their direct
\* classification, nothing padded, truncated or substituted.
C7_ValidMeansUnrepaired ==
    (pc = "parsed" /\ is_valid) =>
        LET ir == input_rows(current_bio, cols)
        IN /\ Len(ir) >= rows
           /\ \A r \in 1..rows : Len(ir[r]) = cols
           /\ grid = [r \in 1..rows |-> classify_line(ir[r])]

\* C8: validity asymmetry for multi-line input whose lines are all cols wide:
\* more than rows lines is valid and yields the first rows lines; fewer than
\* rows lines is invalid and yields the present lines followed by dead rows.
C8_ValidityAsymmetry ==
    (/\ pc = "parsed"
     /\ has_char(current_bio, NEWLINE_CHAR)
     /\ all_width(str_split(current_bio, NEWLINE_CHAR), cols))
    => LET lines == str_split(current_bio, NEWLINE_CHAR)
       IN /\ Len(lines) > rows =>
                /\ is_valid
                /\ grid = [r \in 1..rows |-> classify_line(lines[r])]
          /\ Len(lines) < rows =>
                /\ ~is_valid
                /\ grid = [r \in 1..rows |->
                              IF r <= Len(lines) THEN classify_line(lines[r])
                              ELSE dead_row(cols)]

\* C9: a bio of exactly rows lines, each of exactly cols characters, is valid
\* and cell (r, c) is 1 iff character c of line r is one of the alive glyphs.
C9_ExactBioDecodesExactly ==
    (/\ pc = "parsed"
     /\ Len(str_split(current_bio, NEWLINE_CHAR)) = rows
     /\ all_width(str_split(current_bio, NEWLINE_CHAR), cols))
    => /\ is_valid
       /\ grid = [r \in 1..rows |->
                     classify_line(str_split(current_bio, NEWLINE_CHAR)[r])]

\* C10: flat decoding: for a non-empty bio without separator, cell (r, c) is
\* alive iff r*cols + c < len(s) and s[r*cols + c] is an alive glyph; when
\* len(s) = rows*cols the decode is valid and equals the decode of the same
\* text with separators between the cols-wide chunks.
C10_FlatDecodeIsRowMajor ==
    (pc = "parsed" /\ is_flat(current_bio))
    => /\ grid = [r \in 1..rows |-> [c \in 1..cols |->
                     IF (r - 1) * cols + c <= Len(current_bio)
                     THEN classify(current_bio[(r - 1) * cols + c])
                     ELSE 0]]
       /\ Len(current_bio) = rows * cols =>
             /\ is_valid
             /\ LET res == parse_bio_to_grid(
                               str_join(input_rows(current_bio, cols), <<NEWLINE_CHAR>>),
                               rows, cols)
                IN res.is_valid /\ res.grid = grid

\* C11: row-width repair: for multi-line input with at least rows lines, each
\* of the first rows lines is repaired in place (a short line keeps its
\* characters and is right-padded with dead cells, a long line gives its first
\* cols characters) and is_valid is FALSE iff one of them was not cols wide.
C11_RowWidthRepair ==
    (/\ pc = "parsed"
     /\ ~is_flat(current_bio)
     /\ Len(str_split(current_bio, NEWLINE_CHAR)) >= rows)
    => LET lines == str_split(current_bio, NEWLINE_CHAR)
       IN /\ grid = [r \in 1..rows |-> [c \in 1..cols |->
                        IF c <= Len(lines[r]) THEN classify(lines[r][c]) ELSE 0]]
          /\ is_valid = (\A r \in 1..rows : Len(lines[r]) = cols)

\* ----------------------------------------------- claim vocabulary: engine
birth(r) ==
    CASE r = "standard" -> {3}
      [] r = "daynight" -> {3, 6, 7, 8}
      [] r = "highlife" -> {3, 6}
survive(r) ==
    CASE r = "standard" -> {2, 3}
      [] r = "daynight" -> {3, 4, 6, 7, 8}
      [] r = "highlife" -> {2, 3}
\* non-empty and rectangular
is_grid(g) ==
    /\ Len(g) >= 1
    /\ Len(g[1]) >= 1
    /\ \A y \in 1..Len(g) : Len(g[y]) = Len(g[1])
moore_offsets == ({-1, 0, 1} \X {-1, 0, 1}) \ {<<0, 0>>}
\* toroidal neighbour count of the cell at 0-based (x, y): the number of the
\* eight offsets that lead, modulo the dimensions, to a live cell
torus_count(g, x, y) ==
    Cardinality({d \in moore_offsets :
        g[((y + d[2]) % Len(g)) + 1][((x + d[1]) % Len(g[1])) + 1] = 1})
all_alive(g) == \A y \in 1..Len(g) : \A x \in 1..Len(g[y]) : g[y][x] = 1
all_dead(g) == \A y \in 1..Len(g) : \A x \in 1..Len(g[y]) : g[y][x] = 0
in_bounds(g, x, y) == 0 <= x /\ x < Len(g[1]) /\ 0 <= y /\ y < Len(g)
blinker_grid == <<<<0, 1, 0>>, <<0, 1, 0>>, <<0, 1, 0>>>>

\* C13: for a non-empty rectangular grid and each of the three rule sets, step
\* returns the grid whose cell (x, y) is alive iff the cell was alive with a
\* neighbour count in survive(r), or dead with a count in birth(r), every count
\* being taken on the grid as it was before the step.
C13_StepAppliesRuleTables ==
    (pc \in {"evolved", "evolved_again"} /\ rule_set \in valid_rule_sets /\ is_grid(arg_grid))
    => /\ raised = "none"
       /\ new_grid = [y \in 1..Len(arg_grid) |-> [x \in 1..Len(arg_grid[1]) |->
              LET n == torus_count(arg_grid, x - 1, y - 1)
              IN IF \/ arg_grid[y][x] = 1 /\ n \in survive(rule_set)
                    \/ arg_grid[y][x] = 0 /\ n \in birth(rule_set)
                 THEN 1 ELSE 0]]

\* C13 witness: under HighLife a dead cell with six live neighbours was born.
C13_Witness ==
    /\ pc = "evolved"
    /\ rule_set = "highlife"
    /\ raised = "none"
    /\ is_grid(arg_grid)
    /\ \E y \in 1..Len(arg_grid) : \E x \in 1..Len(arg_grid[1]) :
          /\ arg_grid[y][x] = 0
          /\ torus_count(arg_grid, x - 1, y - 1) = 6
          /\ new_grid[y][x] = 1

C15_NeighborsAreTorusSum ==
    (pc = "counted" /\ is_grid(grid) /\ in_bounds(grid, cx, cy))
    => /\ raised = "none"
       /\ neighbor_count = torus_count(grid, cx, cy)
       /\ neighbor_count \in 0..8
       /\ all_alive(grid) => neighbor_count = 8

\* C15 witness: a corner cell of an all-alive grid with more than one row and
\* column reported 8.
C15_Witness ==
    /\ pc = "counted"
    /\ is_grid(grid)
    /\ Len(grid) >= 2
    /\ Len(grid[1]) >= 2
    /\ all_alive(grid)
    /\ cx = 0
    /\ cy = 0
    /\ neighbor_count = 8

C17_EngineErrors ==
    /\ (pc \in {"evolved", "evolved_again"} /\ is_empty_grid(arg_grid))
       => raised = "EmptyGrid" /\ new_grid = <<>>
    /\ (pc \in {"evolved", "evolved_again"} /\ is_grid(arg_grid)
        /\ rule_set \notin valid_rule_sets)
       => raised = "InvalidRuleSet" /\ new_grid = <<>>
    /\ (pc = "judged" /\ is_grid(grid) /\ rule_set \notin valid_rule_sets)
       => raised = "InvalidRuleSet" /\ next_state = 0
    /\ (pc = "counted" /\ is_empty_grid(grid))
       => raised = "EmptyGrid" /\ neighbor_count = 0
    /\ (pc = "counted" /\ is_grid(grid) /\ ~in_bounds(grid, cx, cy))
       => raised = "OutOfBounds" /\ neighbor_count = 0
    /\ (pc \in {"evolved", "evolved_again", "judged", "counted"} /\ raised # "none")
       => grid = seed_grid

\* C17 witness: get_neighbors was asked for the column just past the right
\* edge of a non-empty grid and raised.
C17_Witness ==
    /\ pc = "counted"
    /\ is_grid(grid)
    /\ cx = Len(grid[1])
    /\ cy = 0
    /\ raised = "OutOfBounds"

\* ----------------------------------------------- claim vocabulary: script
\* 0-based row-major index of the cell in row r, column c (1-based) of a grid
\* nc cells wide
cell_index(r, c, nc) == (r - 1) * nc + (c - 1)
\* this run decoded the text that the last update wrote
decoded_what_was_written ==
    /\ pc = "have_grid"
    /\ run >= 2
    /\ fetches = 1
    /\ written
    /\ current_bio = sent
\* the decoded grid agrees with the encoded one below the budget and is dead
\* from the budget on
tail_is_dead ==
    /\ is_rectangular(grid, rows, cols)
    /\ \A r \in 1..rows : \A c \in 1..cols :
          cell_index(r, c, cols) >= max_length => grid[r][c] = 0
    /\ is_rectangular(new_grid, rows, cols)
       => \A r \in 1..rows : \A c \in 1..cols :
             cell_index(r, c, cols) < max_length => grid[r][c] = new_grid[r][c]

\* C12: in full mode with rows * cols > max_length, the grid decoded from the
\* truncated text a run wrote equals the encoded grid below index max_length
\* and is dead from index max_length on, at the start of every run after the
\* first.
C12_TruncatedTailStaysDead ==
    (decoded_what_was_written /\ display_mode = "full" /\ rows * cols > max_length)
    => tail_is_dead

\* the same statement for a budget of at least one character, where the text
\* written is never empty
TailStaysDeadForPositiveBudget ==
    (/\ decoded_what_was_written
     /\ display_mode = "full"
     /\ rows * cols > max_length
     /\ max_length >= 1)
    => tail_is_dead

\* the grid a run encoded had a live cell at an index past the budget, and
\* the next run decoded that cell dead
TailWasCut ==
    /\ decoded_what_was_written
    /\ display_mode = "full"
    /\ max_length >= 1
    /\ is_rectangular(new_grid, rows, cols)
    /\ is_rectangular(grid, rows, cols)
    /\ \E r \in 1..rows : \E c \in 1..cols :
          /\ cell_index(r, c, cols) >= max_length
          /\ new_grid[r][c] = 1
          /\ grid[r][c] = 0

\* C18: a normal run that reaches the update sends, once, the flat encoding of
\* step(g, rules) for its source grid g, having applied exactly one step; a run
\* that ended on a failed fetch or a raised error sent no update.
C18_OneGenerationPerRun ==
    /\ updates >= 1
       => /\ updates = 1
          /\ ~py_truthy(args_preview)
          /\ generation = 1
          /\ LET stepped == step(source_grid, rule_set)
             IN /\ stepped.raised = "none"
                /\ sent = script_format_grid_for_bio(stepped.grid, display_mode,
                                                     max_length).github_bio
    /\ pc = "exit1" => updates = 0

\* C18 witness: a run fetched the bio, wrote, and the step changed the text.
C18_Witness ==
    /\ pc = "done"
    /\ fetches = 1
    /\ updates = 1
    /\ written
    /\ sent # script_format_grid_for_bio(source_grid, display_mode, max_length).github_bio

\* C19: when --preview is given, whatever its ITERATIONS value (0 included),
\* the run neither fetches the bio nor calls update_github_bio.
C19_PreviewNeverWrites ==
    args_preview # <<>> => (fetches = 0 /\ updates = 0)

\* C20: for rows, cols and max_length of at least 1, the dimensions returned by
\* calculate_safe_dimensions in half mode fit the budget when rendered in half
\* mode: ceil(safe_rows / 2) * safe_cols <= max_length.
C20_HalfModeFitsBudget ==
    (pc = "planned" /\ display_mode = "half" /\ max_length >= 1)
    => ((safe_rows + 1) \div 2) * safe_columns <= max_length

\* ---------------------------------------------- claim vocabulary: planner
planned_over_budget(mode) ==
    pc = "planned" /\ display_mode = mode /\ rows * cols > max_length

C22_FullModeShrinksBoth ==
    (planned_over_budget("full") /\ rows >= 2 /\ cols >= 2)
    => (safe_rows < rows /\ safe_columns < cols)

text_lines(t) == str_split(t, NEWLINE_CHAR)

in_strict_alphabet(line) ==
    \A i \in 1..Len(line) : line[i] \in STRICT_ALIVE \cup STRICT_DEAD

\* a non-empty text of lines of one width (at least 1) over the four cell characters
well_formed_text(t) ==
    LET ls == text_lines(t)
    IN /\ Len(ls[1]) >= 1
       /\ \A i \in 1..Len(ls) : Len(ls[i]) = Len(ls[1]) /\ in_strict_alphabet(ls[i])

load_returned == pc \in {"loaded", "failed"}

\* C24: for every non-empty text of lines of equal width over '1', full block,
\* '0' and space, load_grid_from_string returns a grid with one row per line and
\* one cell per character, cell (r, c) alive iff character c of line r is '1' or
\* the full block; also when the first line begins or the last line ends with a
\* space.
C24_StrictDecodeMapping ==
    (load_returned /\ well_formed_text(current_bio))
    => LET ls == text_lines(current_bio)
       IN /\ raised = "none"
          /\ Len(grid) = Len(ls)
          /\ \A r \in 1..Len(ls) :
                /\ Len(grid[r]) = Len(ls[r])
                /\ \A c \in 1..Len(ls[r]) :
                      grid[r][c] = 1 <=> ls[r][c] \in STRICT_ALIVE

\* the same for the texts with no space or line break at either end
StrictDecodeMappingOfTrimmedText ==
    (load_returned /\ well_formed_text(current_bio)
        /\ str_strip(current_bio) = current_bio)
    => LET ls == text_lines(current_bio)
       IN /\ raised = "none"
          /\ Len(grid) = Len(ls)
          /\ \A r \in 1..Len(ls) :
                /\ Len(grid[r]) = Len(ls[r])
                /\ \A c \in 1..Len(ls[r]) :
                      grid[r][c] = 1 <=> ls[r][c] \in STRICT_ALIVE

\* what the strict decoder has to reject, on the text as trimmed
must_be_rejected(t) ==
    LET ls == text_lines(str_strip(t))
    IN \/ str_strip(t) = <<>>
       \/ \E i \in 1..Len(ls) : Len(ls[i]) # Len(ls[1])
       \/ \E i \in 1..Len(ls) : ~in_strict_alphabet(ls[i])

\* C25: load_grid_from_string raises and returns no grid whenever the text is
\* empty after trimming (also a text of whitespace only), whenever a line's
\* length differs from the first line's (the error names that 1-based line), and
\* whenever a character is none of '1', full block, '0', space; it returns a
\* grid only when none of these holds.
C25_StrictDecodeRejects ==
    load_returned
    => LET ls == text_lines(str_strip(current_bio))
       IN /\ must_be_rejected(current_bio) <=> raised # "none"
          /\ raised # "none" => pc = "failed" /\ grid = <<>>
          /\ raised = "InconsistentWidth"
                => /\ error_line \in 2..Len(ls)
                   /\ Len(ls[error_line]) # Len(ls[1])

\* the same for the texts that are not whitespace only
StrictDecodeRejectsNonBlank ==
    (load_returned /\ (current_bio = <<>> \/ str_strip(current_bio) # <<>>))
    => LET ls == text_lines(str_strip(current_bio))
       IN /\ must_be_rejected(current_bio) <=> raised # "none"
          /\ raised # "none" => pc = "failed" /\ grid = <<>>
          /\ raised = "InconsistentWidth"
                => /\ error_line \in 2..Len(ls)
                   /\ Len(ls[error_line]) # Len(ls[1])

\* ----------------------------------------------- claim vocabulary: renderers
render_returned(mode) == pc \in {"rendered", "failed"} /\ display_mode = mode

\* the cell of row r (1-based), or a dead cell below the last row
cell_or_dead(g, r, c) == IF r <= Len(g) THEN g[r][c] ELSE 0

\* the combination table of the half renderer
table_glyph(top, bottom) ==
    CASE top = 0 /\ bottom = 0 -> SPACE_CHAR
      [] top = 0 /\ bottom = 1 -> LOWER_HALF_CHAR
      [] top = 1 /\ bottom = 0 -> UPPER_HALF_CHAR
      [] top = 1 /\ bottom = 1 -> TALL_BLOCK_CHAR

or_fold(g, nr, nc) ==
    [k \in 1..nr |-> [c \in 1..nc |->
        IF k <= (nr + 1) \div 2
              /\ (g[2 * k - 1][c] = 1 \/ cell_or_dead(g, 2 * k, c) = 1)
        THEN 1 ELSE 0]]

\* a run in half mode has decoded the untruncated text the run before wrote
decoded_half_text ==
    /\ decoded_what_was_written
    /\ display_mode = "half"
    /\ is_rectangular(new_grid, rows, cols)
    /\ ((rows + 1) \div 2) * cols <= max_length

\* some cell and the cell under it, in one pair of rows, are both alive
has_full_pair(g) ==
    \E k \in 1..(Len(g) \div 2) : \E c \in 1..Len(g[1]) :
        g[2 * k - 1][c] = 1 /\ g[2 * k][c] = 1

\* C29: in the script, for a rows x cols grid g with ceil(rows / 2) * cols <=
\* max_length, decoding the half-mode flat text of g with the same rows and
\* cols returns is_valid = True and the grid whose row k, k < ceil(rows / 2), is
\* the cell-wise OR of rows 2k and 2k+1 of g and whose other rows are dead; so
\* every grid decoded after the first run in half mode has its rows from
\* ceil(rows / 2) on all dead.
C29_HalfModeOrFold ==
    decoded_half_text
    => /\ is_valid
       /\ grid = or_fold(new_grid, rows, cols)

\* the same for the grids with no pair of alive cells one above the other
HalfModeOrFoldWithoutFullPairs ==
    (decoded_half_text /\ ~has_full_pair(new_grid))
    => /\ is_valid
       /\ grid = or_fold(new_grid, rows, cols)

\* the lower rows of what a later run decodes in half mode are dead
HalfModeLowerRowsDead ==
    decoded_half_text
    => /\ is_valid
       /\ is_rectangular(grid, rows, cols)
       /\ \A k \in 1..rows : k > (rows + 1) \div 2 => grid[k] = dead_row(cols)

\* a folded grid of several rows with an alive cell was decoded
HalfTextWasFolded ==
    /\ decoded_half_text
    /\ rows >= 2
    /\ ~all_dead(grid)

\* ----------------------------------- claim vocabulary: the script's copies
\* what the script's decoder returns for the arguments of the last package decode
script_decode_here == script_parse_bio_to_grid(current_bio, rows, cols)

\* what the script's encoder returns for the arguments of the last package encode
script_encode_here == script_format_grid_for_bio(new_grid, display_mode, max_length)

decoders_agree ==
    /\ script_decode_here.raised = raised
    /\ script_decode_here.grid = grid
    /\ script_decode_here.is_valid = is_valid

encoders_agree ==
    /\ script_encode_here.raised = raised
    /\ script_encode_here.github_bio = github_bio
    /\ script_encode_here.display_bio = display_bio

\* C28: the script's copies and the package functions are equivalent: for every
\* bio, rows and cols the two parse_bio_to_grid return the same (grid,
\* is_valid), and for every grid, mode and max_length the two
\* format_grid_for_bio return the same pair of strings.
C28_ScriptMatchesPackage ==
    /\ pc = "parsed" => decoders_agree
    /\ pc = "formatted" => encoders_agree

\* the package's decode is the script's with every row cut to its first rows cells
DecodersDifferByColumnGuard ==
    (pc \in {"parsed", "failed"} /\ github_bio = <<>>)
    => /\ script_decode_here.raised = raised
       /\ script_decode_here.is_valid = is_valid
       /\ Len(script_decode_here.grid) = Len(grid)
       /\ \A r \in 1..Len(grid) :
             grid[r] = SubSeq(script_decode_here.grid[r], 1,
                              Min(rows, Len(script_decode_here.grid[r])))

\* the encoders agree on the display text, and on the text for GitHub when the
\* rendering is one line within the budget
EncodersAgreeOnOneLineWithinBudget ==
    pc = "formatted"
    => /\ script_encode_here.display_bio = display_bio
       /\ (~has_char(display_bio, NEWLINE_CHAR) /\ Len(display_bio) <= max_length)
             => encoders_agree

\* ------------------------------------- claim vocabulary: distinct neighbours
\* the grid with the cell at 0-based (x, y) flipped
flip_cell(g, x, y) == [g EXCEPT ![y + 1][x + 1] = 1 - @]

\* the cells other than (x, y) that the eight offsets lead to, modulo the dimensions
wrapped_neighbourhood(g, x, y) ==
    {<<(x + d[1]) % Len(g[1]), (y + d[2]) % Len(g)>> : d \in moore_offsets} \ {<<x, y>>}

distinct_alive(g, x, y) ==
    Cardinality({c \in wrapped_neighbourhood(g, x, y) : g[c[2] + 1][c[1] + 1] = 1})

counted_in_bounds == pc = "counted" /\ is_grid(grid) /\ in_bounds(grid, cx, cy)

flip_changes_nothing ==
    get_neighbors(cx, cy, flip_cell(grid, cx, cy)).count = neighbor_count

\* C30 as stated: for every grid with rows >= 1 and cols >= 1 and every cell
\* inside it, get_neighbors does not count the cell itself and counts no other
\* cell more than once: flipping grid[y][x] leaves the result unchanged, and the
\* result is the number of distinct alive cells other than (x, y) in its wrapped
\* Moore neighbourhood.
C30_NeighborsAreDistinctCells ==
    counted_in_bounds
    => /\ flip_changes_nothing
       /\ neighbor_count = distinct_alive(grid, cx, cy)

\* C30 as amended: the cell itself is not counted when rows >= 2 and cols >= 2,
\* and the result is the number of distinct alive cells other than (x, y) in the
\* wrapped Moore neighbourhood when rows >= 3 and cols >= 3.
C30_DistinctFromThreeByThree ==
    counted_in_bounds
    => /\ (Len(grid) >= 2 /\ Len(grid[1]) >= 2) => flip_changes_nothing
       /\ (Len(grid) >= 3 /\ Len(grid[1]) >= 3)
             => neighbor_count = distinct_alive(grid, cx, cy)

\* an alive cell of a 3 x 3 board with some but not all neighbours alive was counted
C30_Witness ==
    /\ counted_in_bounds
    /\ Len(grid) = 3 /\ Len(grid[1]) = 3
    /\ grid[cy + 1][cx + 1] = 1
    /\ neighbor_count \in 1..7

TypeOK == pc \in {"fetched", "parsed", "stepped", "formatted", "failed"}
====
